---- MODULE Spec2Model ----
(***************************************************************************)
(* Model of the changelog generator's run (lib/ai-changelog-generator.js)  *)
(* and of the AI provider's model selection and completion calls           *)
(* (lib/ai-provider.js).                                                   *)
(*                                                                         *)
(* A run is one call of AIChangelogGenerator.generateChangelog on a        *)
(* constructed generator.  Commits are listed, analysed one by one (at     *)
(* most BatchThreshold commits) or in batches of batchSize concurrent      *)
(* getCommitAnalysis tasks (more commits), then rolled up into the         *)
(* changelog.                                                              *)
(***************************************************************************)
EXTENDS Integers, Sequences, FiniteSets, TLC

(***************************************************************************)
(* Bounds of the model.                                                    *)
(***************************************************************************)
\* one-by-one runs list 0..MaxSmallRun commits
MaxSmallRun == 2
\* at most this many getCommitAnalysis calls of a run fail
MaxAnalysisFailures == 1

(***************************************************************************)
(* Program constants.                                                      *)
(***************************************************************************)
batchSize == 10
BatchThreshold == 20

Null == "null"
Undefined == "undefined"

(***************************************************************************)
(* Model tiers: AIProvider.modelConfig and the names the provider code     *)
(* mentions.                                                               *)
(***************************************************************************)
DefaultModelConfig ==
  [ default |-> "gpt-4.1",
    simple |-> "gpt-4.1-mini",
    complex |-> "gpt-4.1",
    reasoning |-> "o4-mini",
    advanced_reasoning |-> "o4",
    nano |-> "gpt-4.1-nano" ]

\* AI_MODEL_COMPLEX=o3 set in the environment
CustomModelConfig == [DefaultModelConfig EXCEPT !.complex = "o3"]

ModelConfigs == {DefaultModelConfig, CustomModelConfig}

supportedModels ==
  {"gpt-4.1", "gpt-4.1-mini", "gpt-4.1-nano", "gpt-4o", "gpt-4o-mini", "gpt-4", "gpt-3.5-turbo"}

Models ==
  supportedModels \cup {"o4-mini", "o4", "o3", "gpt-35-turbo"}

\* --model values a caller may force
Overrides == {"o3", "gpt-4.1-mini"}

\* what an Azure resource may have deployed
DeploymentChoices ==
  { {}, {"gpt-4.1"}, {"gpt-4o"}, {"o3", "gpt-4.1-mini"},
    {"gpt-4.1", "gpt-4.1-mini", "gpt-4.1-nano", "o4-mini", "o4"} }

\* AZURE_OPENAI_DEPLOYMENT_NAME || modelConfig.default
DeploymentNames == {"gpt-4.1", "gpt-4o"}

(***************************************************************************)
(* Commits, as far as model selection and the summaries read them.         *)
(***************************************************************************)
\* files: validFiles.length; categories: the files' categories; ui/api/security: some file
\* is a .tsx/.jsx source file / has functionalImpact.apiChanges / .securityRelated;
\* bang: the subject holds "!:"; complexWord: it holds refactor/algorithm/architecture;
\* securityWord: subject or body holds auth/security/password/token/permission;
\* diffBreaking: the diff of some file holds a breaking indicator
CommitProfiles ==
  << [type |-> "feat", files |-> 2, additions |-> 30, deletions |-> 10,
     categories |-> {"source"}, ui |-> TRUE, api |-> FALSE, security |-> FALSE,
     bang |-> FALSE, complexWord |-> FALSE, securityWord |-> FALSE, diffBreaking |-> FALSE],
    [type |-> "fix", files |-> 5, additions |-> 100, deletions |-> 20,
     categories |-> {"source", "test"}, ui |-> FALSE, api |-> TRUE, security |-> FALSE,
     bang |-> FALSE, complexWord |-> FALSE, securityWord |-> FALSE, diffBreaking |-> FALSE],
    [type |-> "chore", files |-> 15, additions |-> 400, deletions |-> 100,
     categories |-> {"source", "config", "docs"}, ui |-> FALSE, api |-> FALSE, security |-> TRUE,
     bang |-> FALSE, complexWord |-> FALSE, securityWord |-> TRUE, diffBreaking |-> FALSE],
    [type |-> "feat", files |-> 30, additions |-> 1000, deletions |-> 500,
     categories |-> {"source", "style"}, ui |-> FALSE, api |-> FALSE, security |-> FALSE,
     bang |-> FALSE, complexWord |-> FALSE, securityWord |-> FALSE, diffBreaking |-> FALSE],
    [type |-> "fix", files |-> 120, additions |-> 2000, deletions |-> 1000,
     categories |-> {"source", "database", "config", "docs", "test"},
     ui |-> FALSE, api |-> FALSE, security |-> FALSE,
     bang |-> TRUE, complexWord |-> FALSE, securityWord |-> FALSE, diffBreaking |-> TRUE],
    [type |-> "refactor", files |-> 250, additions |-> 9000, deletions |-> 3000,
     categories |-> {"source"}, ui |-> FALSE, api |-> FALSE, security |-> FALSE,
     bang |-> FALSE, complexWord |-> TRUE, securityWord |-> FALSE, diffBreaking |-> FALSE] >>

VARIABLES
  \* environment and constructed generator
  gitExists,        \* this.gitExists
  hasAI,            \* this.hasAI
  provider,         \* aiProvider.provider (AI_PROVIDER)
  azureConfigured,  \* aiProvider.isAzureConfigured()
  openaiConfigured, \* aiProvider.isOpenAIConfigured()
  activeProvider,   \* aiProvider.activeProvider
  modelConfig,      \* aiProvider.modelConfig
  deploymentName,   \* aiProvider.azureConfig.deploymentName
  azureDeployed,    \* models the Azure resource answers for
  modelOverride,    \* this.modelOverride
  repoCommits,      \* number of commits in the requested range
  repoOffset,       \* which commit of the repository has which profile
  \* the run
  pc,               \* position of generateChangelog
  outcome,          \* how generateChangelog ended
  commitHashes,     \* result of getCommitsSince
  idx,              \* loop index i of the running loop
  analyzedCommits,  \* analyzedCommits / results
  batchTasks,       \* the settled state of the current batch's promises
  failures,         \* getCommitAnalysis calls that failed so far
  metrics,          \* this.metrics
  lastCall,         \* what the last generateAISummary did
  sleeps,           \* number of inter-batch / inter-commit sleeps
  report,           \* what the run handed to the caller
  \* the classification engine on its own
  classified,       \* the commit handed to getCommitAnalysis and what it was classified as
  \* the components a run of generateChangelog works with or beside
  dryRun,           \* this.dryRun
  changelogFile,    \* AI_CHANGELOG.md in the working directory
  gitLog,           \* a git log output handed to GitManager.parseCommitOutput, and its result
  aiProvider,       \* the AIProvider of src/ai-provider.js: deployment name, generate calls
  cwd,              \* process.cwd() of the MCP server
  toolCalls         \* the MCP tool calls in flight

generatorVars == <<gitExists, hasAI, provider, azureConfigured, openaiConfigured,
                   activeProvider, modelConfig, deploymentName, azureDeployed,
                   repoCommits, repoOffset>>
besideVars == <<dryRun, gitLog, aiProvider, cwd, toolCalls>>
envVars == <<generatorVars, classified, besideVars>>
runVars == <<pc, outcome, commitHashes, idx, analyzedCommits, batchTasks,
             failures, metrics, lastCall, sleeps, report, changelogFile>>
vars == <<envVars, modelOverride, runVars>>

(***************************************************************************)
(* AIProvider: provider choice, tier heuristic, availability probe.        *)
(***************************************************************************)
determineActiveProvider(prov, azure, openai) ==
  IF prov = "auto"
    THEN IF azure THEN "azure" ELSE IF openai THEN "openai" ELSE "none"
    ELSE IF prov = "azure" /\ azure THEN "azure"
    ELSE IF prov = "openai" /\ openai THEN "openai"
    ELSE IF azure THEN "azure"
    ELSE IF openai THEN "openai"
    ELSE "none"

\* faulty variant: the simple-commit test comes before the minimal-commit test
selectModelForCommitSimpleFirst(commitInfo) ==
  LET filesChanged == commitInfo.files
      linesChanged == commitInfo.additions + commitInfo.deletions
      hasBreakingChanges == commitInfo.bang
      hasComplexLogic == commitInfo.complexWord
  IN IF filesChanged > 100 \/ linesChanged > 5000 \/ hasBreakingChanges \/ hasComplexLogic
       THEN IF activeProvider = "azure"
              THEN IF filesChanged > 200 \/ linesChanged > 10000
                     THEN modelConfig.advanced_reasoning
                     ELSE modelConfig.reasoning
              ELSE modelConfig.complex
     ELSE IF filesChanged > 20 \/ linesChanged > 1000 THEN modelConfig.complex
     ELSE IF filesChanged < 10 /\ linesChanged < 200 THEN modelConfig.simple
     ELSE IF filesChanged < 3 /\ linesChanged < 50 THEN modelConfig.nano
     ELSE modelConfig.default

selectModelForCommit(commitInfo) ==
  LET filesChanged == commitInfo.files
      linesChanged == commitInfo.additions + commitInfo.deletions
      hasBreakingChanges == commitInfo.bang
      hasComplexLogic == commitInfo.complexWord
  IN IF filesChanged > 100 \/ linesChanged > 5000 \/ hasBreakingChanges \/ hasComplexLogic
       THEN IF activeProvider = "azure"
              THEN IF filesChanged > 200 \/ linesChanged > 10000
                     THEN modelConfig.advanced_reasoning
                     ELSE modelConfig.reasoning
              ELSE modelConfig.complex
     ELSE IF filesChanged > 20 \/ linesChanged > 1000 THEN modelConfig.complex
     ELSE IF filesChanged < 3 /\ linesChanged < 50 THEN modelConfig.nano
     ELSE IF filesChanged < 10 /\ linesChanged < 200 THEN modelConfig.simple
     ELSE modelConfig.default

\* the result of one probe: { available }
validateModelAvailability(modelName) ==
  IF activeProvider = "azure" THEN modelName \in azureDeployed
  ELSE IF activeProvider = "openai" THEN modelName \in supportedModels
  ELSE FALSE

fallbackModels ==
  <<modelConfig.default, modelConfig.simple, "gpt-4o", "gpt-4", "gpt-35-turbo">>

\* faulty variant: the first fallback that is not the preferred tier is taken unprobed
RECURSIVE WalkFallbacksUnprobed(_, _)
WalkFallbacksUnprobed(preferredModel, k) ==
  IF k > Len(fallbackModels)
    THEN [threw |-> TRUE, model |-> Null, probes |-> <<>>]
  ELSE IF fallbackModels[k] = preferredModel
    THEN WalkFallbacksUnprobed(preferredModel, k + 1)
  ELSE [threw |-> FALSE, model |-> fallbackModels[k], probes |-> <<fallbackModels[k]>>]

\* the for loop over fallbackModels from position k on; probes lists the tiers probed
RECURSIVE WalkFallbacks(_, _)
WalkFallbacks(preferredModel, k) ==
  IF k > Len(fallbackModels)
    THEN [threw |-> TRUE, model |-> Null, probes |-> <<>>]
  ELSE IF fallbackModels[k] = preferredModel
    THEN WalkFallbacks(preferredModel, k + 1)
  ELSE IF validateModelAvailability(fallbackModels[k])
    THEN [threw |-> FALSE, model |-> fallbackModels[k], probes |-> <<fallbackModels[k]>>]
  ELSE LET rest == WalkFallbacks(preferredModel, k + 1)
       IN [rest EXCEPT !.probes = <<fallbackModels[k]>> \o rest.probes]

\* AIProvider.selectOptimalModel(commitInfo)
providerSelectOptimalModel(commitInfo) ==
  LET preferredModel == selectModelForCommit(commitInfo)
  IN IF validateModelAvailability(preferredModel)
       THEN [threw |-> FALSE, model |-> preferredModel, probes |-> <<preferredModel>>]
     ELSE IF activeProvider = "azure"
       THEN LET walk == WalkFallbacks(preferredModel, 1)
            IN [walk EXCEPT !.probes = <<preferredModel>> \o walk.probes]
     ELSE [threw |-> FALSE, model |-> preferredModel, probes |-> <<preferredModel>>]

\* AIChangelogGenerator.selectOptimalModel(commitAnalysis), called with hasAI
selectOptimalModel(commitInfo) ==
  IF modelOverride # Null
    THEN [model |-> modelOverride, probes |-> <<>>, heuristic |-> FALSE, signalled |-> FALSE]
  ELSE LET optimalModel == providerSelectOptimalModel(commitInfo)
       IN [model |-> IF optimalModel.threw THEN modelConfig.default ELSE optimalModel.model,
           probes |-> optimalModel.probes,
           heuristic |-> TRUE,
           signalled |-> optimalModel.threw]


(***************************************************************************)
(* AIProvider.generateCompletion and the two provider calls.               *)
(* r1, r2: what the first call and the retry on the other provider give    *)
(* back: "throw", or the content of the response.                          *)
(***************************************************************************)
ResponseContents == {"json_full", "json_partial", "garbage", "empty"}
CallResults == ResponseContents \cup {"throw"}

\* requestBody.model of callAzureOpenAI
callAzureOpenAI(settingsModel) == [provider |-> "azure", model |-> deploymentName]

\* requestBody.model of callOpenAI
callOpenAI(settingsModel) == [provider |-> "openai", model |-> settingsModel]

\* faulty variant: the retry on the other provider does not ask for auto mode
generateCompletionRetryInAnyMode(settingsModel, r1, r2) ==
  LET first == IF activeProvider = "azure"
                 THEN callAzureOpenAI(settingsModel)
                 ELSE callOpenAI(settingsModel)
      fallbackProvider == IF activeProvider = "azure" THEN "openai" ELSE "azure"
  IN IF r1 # "throw"
       THEN [threw |-> FALSE, content |-> r1, requests |-> <<first>>]
     ELSE IF fallbackProvider = "openai" /\ openaiConfigured
       THEN [threw |-> r2 = "throw", content |-> r2,
             requests |-> <<first, callOpenAI(settingsModel)>>]
     ELSE IF fallbackProvider = "azure" /\ azureConfigured
       THEN [threw |-> r2 = "throw", content |-> r2,
             requests |-> <<first, callAzureOpenAI(settingsModel)>>]
     ELSE [threw |-> TRUE, content |-> "throw", requests |-> <<first>>]

generateCompletion(settingsModel, r1, r2) ==
  LET first == IF activeProvider = "azure"
                 THEN callAzureOpenAI(settingsModel)
                 ELSE callOpenAI(settingsModel)
      fallbackProvider == IF activeProvider = "azure" THEN "openai" ELSE "azure"
  IN IF r1 # "throw"
       THEN [threw |-> FALSE, content |-> r1, requests |-> <<first>>]
     ELSE IF provider = "auto" /\ fallbackProvider = "openai" /\ openaiConfigured
       THEN [threw |-> r2 = "throw", content |-> r2,
             requests |-> <<first, callOpenAI(settingsModel)>>]
     ELSE IF provider = "auto" /\ fallbackProvider = "azure" /\ azureConfigured
       THEN [threw |-> r2 = "throw", content |-> r2,
             requests |-> <<first, callAzureOpenAI(settingsModel)>>]
     ELSE [threw |-> TRUE, content |-> "throw", requests |-> <<first>>]

(***************************************************************************)
(* Commit analysis: complexity, risk, and the analysis record.             *)
(***************************************************************************)
\* faulty variant: the thresholds for high and medium are exchanged
complexityLevelOutOfOrder(complexityScore) ==
  IF complexityScore >= 8 THEN "very high"
  ELSE IF complexityScore >= 6 THEN "medium"
  ELSE IF complexityScore >= 4 THEN "high"
  ELSE IF complexityScore >= 2 THEN "low"
  ELSE "minimal"

\* assessOverallComplexity: let level = 'minimal'; if (complexityScore >= 8) ...
complexityLevelOf(complexityScore) ==
  IF complexityScore >= 8 THEN "very high"
  ELSE IF complexityScore >= 6 THEN "high"
  ELSE IF complexityScore >= 4 THEN "medium"
  ELSE IF complexityScore >= 2 THEN "low"
  ELSE "minimal"

\* assessRisk: let level = 'low'; if (riskScore >= 8) ...
riskLevelOf(riskScore) ==
  IF riskScore >= 8 THEN "critical"
  ELSE IF riskScore >= 6 THEN "high"
  ELSE IF riskScore >= 4 THEN "medium"
  ELSE IF riskScore >= 2 THEN "low-medium"
  ELSE "low"

assessOverallComplexity(filesCount, linesChanged, categoriesCount) ==
  LET fileScore == IF filesCount > 50 THEN 5 ELSE IF filesCount > 20 THEN 3
                   ELSE IF filesCount > 10 THEN 2 ELSE IF filesCount > 5 THEN 1 ELSE 0
      lineScore == IF linesChanged > 5000 THEN 5 ELSE IF linesChanged > 1000 THEN 3
                   ELSE IF linesChanged > 500 THEN 2 ELSE IF linesChanged > 100 THEN 1 ELSE 0
      catScore == IF categoriesCount > 4 THEN 2 ELSE IF categoriesCount > 2 THEN 1 ELSE 0
      complexityScore == fileScore + lineScore + catScore
  IN [score |-> complexityScore, level |-> complexityLevelOf(complexityScore)]

\* isBreakingChange(subject, body), the body of the explored commits being empty;
\* subject.bang: the subject holds "!:" or BREAKING
isBreakingChange(subject) == subject.bang

\* one risk factor of assessRisk: its points and its name when it is present
RiskFactor(present, points, name) ==
  [score |-> IF present THEN points ELSE 0,
   factors |-> IF present THEN <<name>> ELSE <<>>]

\* faulty variant: a breaking indicator in the diff takes the place of the subject's marker
assessRiskDiffInsteadOfSubject(files, diffStats, subject) ==
  LET breaking == RiskFactor(isBreakingChange(subject) /\ ~files.breaking, 5, "Breaking changes detected")
      database == RiskFactor("database" \in files.categories, 3, "Database schema changes")
      config == RiskFactor("config" \in files.categories, 2, "Configuration changes")
      largeScale == RiskFactor(files.count > 50 \/ diffStats.insertions + diffStats.deletions > 2000,
                               2, "Large scale changes")
      security == RiskFactor(subject.securityWord, 3, "Security-related changes")
      riskScore == breaking.score + database.score + config.score + largeScale.score
                   + security.score
  IN [score |-> riskScore, level |-> riskLevelOf(riskScore),
      factors |-> breaking.factors \o database.factors \o config.factors
                  \o largeScale.factors \o security.factors]

\* assessRisk(files, diffStats, subject, body).  files: count, categories, and whether
\* the diff of some file holds a breaking indicator or a security keyword (neither is
\* read); subject.securityWord: subject (or body) holds auth/security/password/token/
\* permission
assessRisk(files, diffStats, subject) ==
  LET breaking == RiskFactor(isBreakingChange(subject), 5, "Breaking changes detected")
      database == RiskFactor("database" \in files.categories, 3, "Database schema changes")
      config == RiskFactor("config" \in files.categories, 2, "Configuration changes")
      largeScale == RiskFactor(files.count > 50 \/ diffStats.insertions + diffStats.deletions > 2000,
                               2, "Large scale changes")
      security == RiskFactor(subject.securityWord, 3, "Security-related changes")
      riskScore == breaking.score + database.score + config.score + largeScale.score
                   + security.score
  IN [score |-> riskScore, level |-> riskLevelOf(riskScore),
      factors |-> breaking.factors \o database.factors \o config.factors
                  \o largeScale.factors \o security.factors]

\* categorizeFile(filePath).  A path is read by its extension, by whether its name has
\* the .test./.spec. infix, and by whether it holds "migration"; the checks run in the
\* order of the code, the first match wins
categorizeFile(filePath) ==
  IF filePath.ext \in {"ts", "tsx", "js", "jsx"} THEN "source"
  ELSE IF filePath.ext \in {"css", "scss", "sass", "less", "styl"} THEN "style"
  ELSE IF filePath.ext \in {"json", "yaml", "yml", "toml", "ini", "xml"} THEN "config"
  ELSE IF filePath.ext \in {"md", "txt", "rst", "adoc"} THEN "docs"
  ELSE IF filePath.testInfix /\ filePath.ext \in {"ts", "tsx", "js", "jsx"} THEN "test"
  ELSE IF filePath.ext \in {"sql", "prisma"} \/ filePath.migration THEN "database"
  ELSE IF filePath.ext \in {"png", "jpg", "jpeg", "gif", "svg", "webp", "ico"} THEN "asset"
  ELSE IF filePath.ext \in {"sh", "bash", "ps1", "bat"} THEN "script"
  ELSE "other"

\* the analysis object getCommitAnalysis builds for a commit of profile p
commitAnalysisOf(hash, p) ==
  [hash |-> hash,
   subject |-> "subject",
   type |-> p.type,
   breaking |-> p.bang,
   files |-> p.files,
   additions |-> p.additions,
   deletions |-> p.deletions,
   categories |-> p.categories,
   ui |-> p.ui, api |-> p.api, security |-> p.security,
   bang |-> p.bang, complexWord |-> p.complexWord,
   complexity |-> assessOverallComplexity(p.files, p.additions + p.deletions,
                                          Cardinality(p.categories)),
   riskAssessment |-> assessRisk([count |-> p.files, categories |-> p.categories,
                                  breaking |-> p.diffBreaking, security |-> p.security],
                                 [insertions |-> p.additions, deletions |-> p.deletions],
                                 [bang |-> p.bang, securityWord |-> p.securityWord])]

(***************************************************************************)
(* AISummary: the fields of a summary, the rule-based generator and the    *)
(* parser of the service's response.  confidence is in tenths.             *)
(***************************************************************************)
\* the aiSummary of a commit object that has no such property
NoSummary == [missing |-> TRUE]

RequiredFields ==
  {"summary", "technicalSummary", "category", "impact", "scope", "userFacing", "breaking",
   "businessImpact", "technicalImpact", "highlights", "tags", "relatedAreas", "riskLevel",
   "confidence"}

generateRuleBasedSummary(c) ==
  LET riskHigh == c.riskAssessment.level \in {"critical", "high"}
      complexHigh == c.complexity.level \in {"high", "very high"}
      impact0 == IF riskHigh THEN c.riskAssessment.level
                 ELSE IF complexHigh THEN "medium" ELSE "low"
      category0 == IF riskHigh THEN "breaking" ELSE c.type
      hasDBChanges == "database" \in c.categories
      impact == IF c.security THEN "high"
                ELSE IF c.breaking THEN "critical"
                ELSE IF hasDBChanges \/ c.api THEN "medium"
                ELSE IF c.ui THEN "medium"
                ELSE impact0
      category == IF c.security THEN "security"
                  ELSE IF c.breaking THEN "breaking"
                  ELSE category0
      userFacing == ~c.security /\ ~c.breaking /\ ~(hasDBChanges \/ c.api) /\ c.ui
  IN [summary |-> c.subject,
      technicalSummary |-> "Modified files",
      category |-> category,
      impact |-> impact,
      scope |-> IF impact = "critical" THEN "major" ELSE IF impact = "high" THEN "minor" ELSE "patch",
      userFacing |-> userFacing,
      breaking |-> c.breaking,
      businessImpact |-> IF userFacing THEN "Affects user experience" ELSE "Internal improvements",
      technicalImpact |-> "Changes in categories",
      highlights |-> IF c.complexity.level # "minimal" THEN <<"complexity changes">> ELSE <<>>,
      migrationNotes |-> IF c.breaking THEN "Review breaking changes before deployment" ELSE Null,
      tags |-> <<>>,
      relatedAreas |-> <<"source">>,
      riskLevel |-> c.riskAssessment.level,
      confidence |-> 7]

\* parseAIResponse(content, originalCommit): threw when JSON.parse (or a field read) threw
parseAIResponse(content, originalCommit) ==
  IF content = "json_full"
    THEN [threw |-> FALSE,
          summary |-> [summary |-> "ai summary",
                       technicalSummary |-> "ai text",
                       category |-> "feature",
                       impact |-> "medium",
                       scope |-> "minor",
                       userFacing |-> TRUE,
                       breaking |-> TRUE,
                       businessImpact |-> "ai text",
                       technicalImpact |-> "ai text",
                       highlights |-> <<"ai text">>,
                       migrationNotes |-> Null,
                       tags |-> <<"ai tag">>,
                       relatedAreas |-> <<"ai area">>,
                       riskLevel |-> "low",
                       confidence |-> 9]]
  ELSE IF content = "json_partial"
    THEN [threw |-> FALSE,
          summary |-> [summary |-> originalCommit.subject,
                       technicalSummary |-> "",
                       category |-> originalCommit.type,
                       impact |-> "low",
                       scope |-> "patch",
                       userFacing |-> FALSE,
                       breaking |-> FALSE,
                       businessImpact |-> "",
                       technicalImpact |-> "",
                       highlights |-> <<>>,
                       migrationNotes |-> Null,
                       tags |-> <<>>,
                       relatedAreas |-> <<>>,
                       riskLevel |-> "low",
                       confidence |-> 8]]
  ELSE [threw |-> TRUE, summary |-> generateRuleBasedSummary(originalCommit)]


(***************************************************************************)
(* generateAISummary(commitAnalysis), with what it did on the way.         *)
(***************************************************************************)
NoCall == [commit |-> 0, selected |-> Null, probes |-> <<>>, heuristic |-> FALSE,
           signalled |-> FALSE, checked |-> FALSE, requests |-> <<>>, failure |-> "none",
           source |-> "none"]

SummaryResult(c, sel, checked, requests, failure, summary, source, errors, apiCalls, tokens) ==
  [aiSummary |-> summary, source |-> source, threw |-> FALSE,
   errors |-> errors, apiCalls |-> apiCalls, tokens |-> tokens,
   call |-> [commit |-> c.hash, selected |-> sel.model, probes |-> sel.probes,
             heuristic |-> sel.heuristic, signalled |-> sel.signalled, checked |-> checked,
             requests |-> requests, failure |-> failure, source |-> source]]

\* faulty variant: the catch block lets the error go on to the caller
rethrowAIError(c, sel, requests, failure, apiCalls, tokens) ==
  [SummaryResult(c, sel, TRUE, requests, failure,
                 generateRuleBasedSummary(c), "rule", 1, apiCalls, tokens) EXCEPT !.threw = TRUE]

\* the catch block of generateAISummary: count the error, fall back to the rules
catchAIError(c, sel, requests, failure, apiCalls, tokens) ==
  SummaryResult(c, sel, TRUE, requests, failure,
                generateRuleBasedSummary(c), "rule", 1, apiCalls, tokens)

generateAISummary(c, r1, r2) ==
  IF ~hasAI
    THEN SummaryResult(c, [model |-> Null, probes |-> <<>>, heuristic |-> FALSE, signalled |-> FALSE],
                       FALSE, <<>>, "none", generateRuleBasedSummary(c), "rule", 0, 0, 0)
  ELSE LET sel == selectOptimalModel(c)
       IN IF ~validateModelAvailability(sel.model)
            THEN SummaryResult(c, sel, TRUE, <<>>, "unavailable",
                               generateRuleBasedSummary(c), "rule", 0, 0, 0)
          ELSE LET response == generateCompletion(sel.model, r1, r2)
               IN IF response.threw
                    THEN catchAIError(c, sel, response.requests, "throw", 0, 0)
                  ELSE IF response.content = "empty"
                    THEN catchAIError(c, sel, response.requests, "empty", 1, 1)
                  ELSE LET parsed == parseAIResponse(response.content, c)
                       IN IF parsed.threw
                            THEN SummaryResult(c, sel, TRUE, response.requests, "parse",
                                               parsed.summary, "rule", 1, 1, 1)
                            ELSE SummaryResult(c, sel, TRUE, response.requests, "none",
                                               parsed.summary, "service", 0, 1, 1)

(***************************************************************************)
(* The repository and the environment the generator is constructed in.     *)
(***************************************************************************)
\* git log lists the newest commit first; commit h is the h-th commit of the history
listCommits(n) == [k \in 1..n |-> n - k + 1]

profileOf(h) == CommitProfiles[((h + repoOffset) % Len(CommitProfiles)) + 1]

NoGitEnvironment ==
  [git |-> FALSE, provider |-> "auto", azure |-> FALSE, openai |-> FALSE,
   modelConfig |-> DefaultModelConfig, deploymentName |-> DefaultModelConfig.default,
   azureDeployed |-> {}]

AllEnvironments ==
  {NoGitEnvironment} \cup
  { [git |-> TRUE, provider |-> p, azure |-> a, openai |-> o, modelConfig |-> mc,
     deploymentName |-> IF a THEN dn ELSE mc.default,
     azureDeployed |-> IF a THEN dep ELSE {}] :
       p \in {"auto", "azure", "openai"}, a \in BOOLEAN, o \in BOOLEAN,
       mc \in ModelConfigs, dn \in DeploymentNames, dep \in DeploymentChoices }

\* the environments whole runs are explored in
RunEnvironments ==
  { e \in AllEnvironments :
      /\ e.provider = "auto"
      /\ e.modelConfig = DefaultModelConfig
      /\ e.deploymentName = DefaultModelConfig.default
      /\ e.azureDeployed \in {{}, {"gpt-4.1", "gpt-4.1-mini", "gpt-4.1-nano", "o4-mini", "o4"}} }

\* small runs, and the smallest run that is processed in batches
RunSizes == (0..MaxSmallRun) \cup {BatchThreshold + 1}

NoReport == [produced |-> FALSE]

NoClassification == [done |-> FALSE]

\* no git log output is being parsed
NoParse == [done |-> FALSE]

\* src/ai-provider.js is not loaded
NoProvider == [calls |-> <<>>]

\* the directory the process was started in
StartDirectory == "start"

\* the components beside the run, none of them called
Beside ==
  /\ changelogFile = "untouched"
  /\ gitLog = NoParse
  /\ aiProvider = NoProvider
  /\ cwd = StartDirectory
  /\ toolCalls = <<>>

\* the constructor and initializeComponents in environment e
Constructed(e, n, off) ==
  /\ gitExists = e.git
  /\ provider = e.provider
  /\ azureConfigured = e.azure
  /\ openaiConfigured = e.openai
  /\ activeProvider = IF e.git THEN determineActiveProvider(e.provider, e.azure, e.openai)
                      ELSE "none"
  /\ hasAI = (e.git /\ determineActiveProvider(e.provider, e.azure, e.openai) # "none")
  /\ modelConfig = e.modelConfig
  /\ deploymentName = e.deploymentName
  /\ azureDeployed = e.azureDeployed
  /\ modelOverride = Null
  /\ repoCommits = n
  /\ repoOffset = off
  /\ pc = "constructed"
  /\ outcome = "running"
  /\ commitHashes = <<>>
  /\ idx = 0
  /\ analyzedCommits = <<>>
  /\ batchTasks = <<>>
  /\ failures = 0
  /\ metrics = [commitsProcessed |-> 0, apiCalls |-> 0, batchesProcessed |-> 0,
                totalTokens |-> 0, errors |-> IF e.git THEN 0 ELSE 1]
  /\ lastCall = NoCall
  /\ sleeps = 0
  /\ report = NoReport

\* the batched path reads nothing of the environment but hasAI: explored without a
\* provider, with OpenAI, and with an Azure resource that has no tier deployed
BatchEnvironments ==
  { e \in RunEnvironments : e.git /\ (e.azure => ~e.openai /\ e.azureDeployed = {}) }

Init ==
  \E e \in RunEnvironments, n \in RunSizes :
    /\ n > BatchThreshold => e \in BatchEnvironments
    /\ Constructed(e, n, 0)
    /\ classified = NoClassification
    /\ dryRun = FALSE
    /\ Beside

InitSummary ==
  \E e \in AllEnvironments, off \in 0..(Len(CommitProfiles) - 1) :
    /\ Constructed(e, 1, off)
    /\ classified = NoClassification
    /\ dryRun = FALSE
    /\ Beside


(***************************************************************************)
(* Operations.                                                             *)
(***************************************************************************)
\* setModelOverride(model), before the run
SetModelOverride(m) ==
  /\ pc = "constructed"
  /\ modelOverride = Null
  /\ modelOverride' = m
  /\ UNCHANGED <<envVars, runVars>>

\* generateChangelog: if (!this.gitExists) { console.error(...); return; }
RefuseWithoutRepository ==
  /\ pc = "constructed"
  /\ ~gitExists
  /\ pc' = "done"
  /\ outcome' = "returned_nothing"
  /\ UNCHANGED <<envVars, modelOverride, commitHashes, idx, analyzedCommits, batchTasks,
                 failures, metrics, lastCall, sleeps, report, changelogFile>>

\* generateChangelog up to the choice of the processing path; gitOk: the git log command
\* ran (getCommits returns [] when it failed)
ListCommits(gitOk) ==
  /\ pc = "constructed"
  /\ gitExists
  /\ LET hashes == IF gitOk THEN listCommits(repoCommits) ELSE <<>>
     IN /\ commitHashes' = hashes
        /\ IF Len(hashes) = 0
             THEN pc' = "done" /\ outcome' = "returned_nothing"
             ELSE /\ pc' = IF Len(hashes) > BatchThreshold THEN "batch" ELSE "loop"
                  /\ outcome' = outcome
  /\ UNCHANGED <<envVars, modelOverride, idx, analyzedCommits, batchTasks,
                 failures, metrics, lastCall, sleeps, report, changelogFile>>

\* what the run keeps of an analysed commit
AnalyzedCommit(c, aiSummary, source) ==
  [hash |-> c.hash, type |-> c.type, breaking |-> c.breaking,
   aiSummary |-> aiSummary, source |-> source]

\* faulty variant: the update of the counter is lost
lostIncrement(count) == count

\* this.metrics.commitsProcessed++ of getCommitAnalysis: read and write in one
\* synchronous step, no other task runs between them
incrementCommitsProcessed(count) == count + 1

\* one iteration of the for loop of generateChangelog over a small commit set:
\* getCommitAnalysis, generateAISummary, push, sleep.
\* analysis: "ok", "invalid" (validateCommitHash failed) or "error" (an exception)
ProcessCommit(analysis, r1, r2) ==
  /\ pc = "loop"
  /\ idx < Len(commitHashes)
  /\ analysis # "ok" => failures < MaxAnalysisFailures
  /\ \E c \in {commitAnalysisOf(commitHashes[idx + 1], profileOf(commitHashes[idx + 1]))} :
     \E res \in {generateAISummary(c, r1, r2)} :
        IF analysis = "ok"
          THEN IF res.threw
                 THEN /\ pc' = "done"
                      /\ outcome' = "threw"
                      /\ metrics' = [metrics EXCEPT !.commitsProcessed = incrementCommitsProcessed(@)]
                      /\ lastCall' = res.call
                      /\ UNCHANGED <<idx, analyzedCommits, sleeps, failures>>
                 ELSE /\ analyzedCommits' =
                           Append(analyzedCommits, AnalyzedCommit(c, res.aiSummary, res.source))
                      /\ metrics' = [metrics EXCEPT !.commitsProcessed = incrementCommitsProcessed(@),
                                                    !.apiCalls = @ + res.apiCalls,
                                                    !.totalTokens = @ + res.tokens,
                                                    !.errors = @ + res.errors]
                      /\ lastCall' = res.call
                      /\ sleeps' = IF hasAI /\ idx < Len(commitHashes) - 1
                                     THEN sleeps + 1 ELSE sleeps
                      /\ idx' = idx + 1
                      /\ UNCHANGED <<pc, outcome, failures>>
          ELSE /\ metrics' = [metrics EXCEPT !.errors = IF analysis = "error" THEN @ + 1 ELSE @]
               /\ failures' = failures + 1
               /\ idx' = idx + 1
               /\ UNCHANGED <<pc, outcome, analyzedCommits, lastCall, sleeps>>
  /\ UNCHANGED <<envVars, modelOverride, commitHashes, batchTasks, report, changelogFile>>

Min(a, b) == IF a < b THEN a ELSE b

\* generateChangelogBatch: batch = commitHashes.slice(i, i + batchSize);
\* batch.map(hash => this.getCommitAnalysis(hash)) starts the batch's tasks
StartBatch ==
  /\ pc = "batch"
  /\ idx < Len(commitHashes)
  /\ batchTasks' = [k \in 1..Min(batchSize, Len(commitHashes) - idx) |-> "pending"]
  /\ pc' = "batch_wait"
  /\ UNCHANGED <<envVars, modelOverride, outcome, commitHashes, idx, analyzedCommits,
                 failures, metrics, lastCall, sleeps, report, changelogFile>>

\* faulty variant: each task pushes its result when it settles
ResultsPushedAtSettle(results, value) == Append(results, value)

\* what a settling task of the batch does to the results: the results are collected
\* from Promise.allSettled after the whole batch, not by the task
ResultsAtSettle(results, value) == results

\* the settle orders explored: the next task to settle is the earliest or the latest
\* of the pending ones, so tasks settle in listing order, against it, or mixed
SettlesNext(tasks, k) ==
  LET pending == { j \in DOMAIN tasks : tasks[j] = "pending" }
  IN k \in pending /\ ((\A j \in pending : k <= j) \/ (\A j \in pending : k >= j))

\* the getCommitAnalysis task of the k-th commit of the batch settles
TaskSettles(k, analysis) ==
  /\ pc = "batch_wait"
  /\ SettlesNext(batchTasks, k)
  /\ analysis # "ok" => failures < MaxAnalysisFailures
  /\ LET commitHash == commitHashes[idx + k]
         c == commitAnalysisOf(commitHash, profileOf(commitHash))
     IN IF analysis = "ok"
          THEN /\ batchTasks' = [batchTasks EXCEPT ![k] = "value"]
               /\ metrics' = [metrics EXCEPT !.commitsProcessed = incrementCommitsProcessed(@)]
               /\ analyzedCommits' = ResultsAtSettle(analyzedCommits, AnalyzedCommit(c, NoSummary, "none"))
               /\ UNCHANGED failures
          ELSE /\ batchTasks' = [batchTasks EXCEPT ![k] = Null]
               /\ metrics' = [metrics EXCEPT !.errors = IF analysis = "error" THEN @ + 1 ELSE @]
               /\ failures' = failures + 1
               /\ UNCHANGED analyzedCommits
  /\ UNCHANGED <<envVars, modelOverride, pc, outcome, commitHashes, idx, lastCall, sleeps, report, changelogFile>>

\* batchResults.filter(r => r.status === 'fulfilled' && r.value).map(r => r.value)
RECURSIVE successfulResults(_, _, _)
successfulResults(tasks, first, k) ==
  IF k > Len(tasks) THEN <<>>
  ELSE LET commitHash == commitHashes[first + k]
           c == commitAnalysisOf(commitHash, profileOf(commitHash))
       IN (IF tasks[k] = "value" THEN <<AnalyzedCommit(c, NoSummary, "none")>> ELSE <<>>)
          \o successfulResults(tasks, first, k + 1)

\* faulty variant: the next batch follows without the delay
CollectBatchWithoutDelay ==
  /\ pc = "batch_wait"
  /\ \A k \in DOMAIN batchTasks : batchTasks[k] # "pending"
  /\ analyzedCommits' = analyzedCommits \o successfulResults(batchTasks, idx, 1)
  /\ metrics' = [metrics EXCEPT !.batchesProcessed = @ + 1]
  /\ idx' = idx + batchSize
  /\ batchTasks' = <<>>
  /\ pc' = "batch"
  /\ UNCHANGED <<envVars, modelOverride, outcome, commitHashes, failures, lastCall, sleeps,
                 report, changelogFile>>

\* Promise.allSettled resolved: collect the batch, count it, sleep, next batch
CollectBatch ==
  /\ pc = "batch_wait"
  /\ \A k \in DOMAIN batchTasks : batchTasks[k] # "pending"
  /\ analyzedCommits' = analyzedCommits \o successfulResults(batchTasks, idx, 1)
  /\ metrics' = [metrics EXCEPT !.batchesProcessed = @ + 1]
  /\ sleeps' = IF idx + batchSize < Len(commitHashes) /\ hasAI THEN sleeps + 1 ELSE sleeps
  /\ idx' = idx + batchSize
  /\ batchTasks' = <<>>
  /\ pc' = "batch"
  /\ UNCHANGED <<envVars, modelOverride, outcome, commitHashes, failures, lastCall, report, changelogFile>>

\* generateReleaseInsights, as far as modelled
generateReleaseInsights(commits) ==
  [totalCommits |-> Len(commits),
   breaking |-> \E k \in 1..Len(commits) : commits[k].breaking]

\* faulty variant: the run returns before the insights and the changelog are built
FinishWithoutReport ==
  /\ \/ pc = "loop" /\ idx = Len(commitHashes)
     \/ pc = "batch" /\ idx >= Len(commitHashes)
  /\ pc' = "done"
  /\ outcome' = "returned_nothing"
  /\ UNCHANGED <<envVars, modelOverride, commitHashes, idx, analyzedCommits, batchTasks,
                 failures, metrics, lastCall, sleeps, report, changelogFile>>

\* the rest of generateChangelog: insights, changelog, then
\* if (this.dryRun) { preview } else { fs.writeFileSync(CHANGELOG_FILE, changelog) }
Finish ==
  /\ \/ pc = "loop" /\ idx = Len(commitHashes)
     \/ pc = "batch" /\ idx >= Len(commitHashes)
  /\ report' = [produced |-> TRUE, commits |-> analyzedCommits,
                insights |-> generateReleaseInsights(analyzedCommits),
                metrics |-> metrics]
  /\ changelogFile' = IF dryRun THEN changelogFile ELSE "written"
  /\ pc' = "done"
  /\ outcome' = "report"
  /\ UNCHANGED <<envVars, modelOverride, commitHashes, idx, analyzedCommits, batchTasks,
                 failures, metrics, lastCall, sleeps>>

Analyses == {"ok", "invalid", "error"}

Next ==
  \/ RefuseWithoutRepository
  \/ \E gitOk \in BOOLEAN : ListCommits(gitOk)
  \/ \E a \in Analyses, r1 \in CallResults, r2 \in CallResults : ProcessCommit(a, r1, r2)
  \/ StartBatch
  \/ \E k \in 1..batchSize, a \in Analyses : TaskSettles(k, a)
  \/ CollectBatch
  \/ Finish

Spec == Init /\ [][Next]_vars

\* every pending call settles and every started step of the run is taken
FairSpec == Spec /\ WF_vars(Next)

(***************************************************************************)
(* The classification of a single commit: getCommitAnalysis on a commit    *)
(* drawn from the inputs below, the tier AIProvider.selectModelForCommit   *)
(* gives it, and the recommendation of ConfigManager for it.               *)
(***************************************************************************)
\* paths of changed files: extension, .test./.spec. infix, "migration" in the path
SourcePath == [ext |-> "js", testInfix |-> FALSE, migration |-> FALSE]
TestPath == [ext |-> "js", testInfix |-> TRUE, migration |-> FALSE]
ConfigPath == [ext |-> "json", testInfix |-> FALSE, migration |-> FALSE]
DocsPath == [ext |-> "md", testInfix |-> FALSE, migration |-> FALSE]
StylePath == [ext |-> "css", testInfix |-> FALSE, migration |-> FALSE]
SqlMigrationPath == [ext |-> "sql", testInfix |-> FALSE, migration |-> TRUE]
JsMigrationPath == [ext |-> "js", testInfix |-> FALSE, migration |-> TRUE]

PathSets ==
  { {SourcePath}, {SourcePath, TestPath}, {SourcePath, SqlMigrationPath}, {JsMigrationPath},
    {SourcePath, ConfigPath, DocsPath},
    {SourcePath, ConfigPath, DocsPath, StylePath, SqlMigrationPath} }

FileCounts == {2, 4, 8, 30, 120, 250}

\* insertions and deletions of the commit
DiffSizes ==
  { [insertions |-> 30, deletions |-> 10], [insertions |-> 100, deletions |-> 50],
    [insertions |-> 400, deletions |-> 200], [insertions |-> 1000, deletions |-> 500],
    [insertions |-> 2000, deletions |-> 1000], [insertions |-> 9000, deletions |-> 3000] }

\* bang: the subject holds "!:"; complexWord: it holds refactor/algorithm/architecture;
\* securityWord: it holds auth/security/password/token/permission; diffBreaking and
\* diffSecurity: the diff of some file holds a breaking indicator / a security keyword
ClassifyInputs ==
  { i \in [paths : PathSets, files : FileCounts, diffStats : DiffSizes, bang : BOOLEAN,
           complexWord : BOOLEAN, securityWord : BOOLEAN, diffBreaking : BOOLEAN,
           diffSecurity : BOOLEAN] : Cardinality(i.paths) <= i.files }

\* the commit of input i as git shows it to getCommitAnalysis
ProfileOfInput(i) ==
  [type |-> "feat", files |-> i.files,
   additions |-> i.diffStats.insertions, deletions |-> i.diffStats.deletions,
   categories |-> { categorizeFile(f) : f \in i.paths },
   ui |-> FALSE, api |-> FALSE, security |-> i.diffSecurity,
   bang |-> i.bang, complexWord |-> i.complexWord, securityWord |-> i.securityWord,
   diffBreaking |-> i.diffBreaking]

\* ConfigManager.getOptimalModelConfig: provider and features.reasoning
getOptimalModelConfig ==
  IF provider = "azure" \/ (provider = "auto" /\ azureConfigured)
    THEN [provider |-> "azure", reasoning |-> TRUE]
  ELSE IF provider = "openai" \/ (provider = "auto" /\ openaiConfigured)
    THEN [provider |-> "openai", reasoning |-> FALSE]
  ELSE [provider |-> "none", reasoning |-> FALSE]

\* ConfigManager.getModelRecommendation({ files, lines, breaking, complex }): the model
getModelRecommendation(files, lines, breaking, complex) ==
  LET config == getOptimalModelConfig
  IN IF config.provider = "none" THEN Null
     ELSE IF files > 100 \/ lines > 5000 \/ (breaking /\ files > 20)
       THEN IF config.reasoning THEN modelConfig.advanced_reasoning ELSE modelConfig.complex
     ELSE IF files > 20 \/ lines > 1000 \/ complex
       THEN IF config.reasoning /\ (breaking \/ complex)
              THEN modelConfig.reasoning ELSE modelConfig.complex
     ELSE IF files < 5 /\ lines < 200 THEN modelConfig.simple
     ELSE IF files < 3 /\ lines < 50 THEN modelConfig.nano
     ELSE modelConfig.default

\* the environments the classification is explored in
ClassifyEnvironments ==
  { e \in AllEnvironments :
      /\ e.git
      /\ e.provider = "auto"
      /\ e.deploymentName = DefaultModelConfig.default
      /\ e.azureDeployed = {} }

InitClassify ==
  \E e \in ClassifyEnvironments, i \in ClassifyInputs :
    /\ Constructed(e, 0, 0)
    /\ classified = [done |-> FALSE, input |-> i]
    /\ dryRun = FALSE
    /\ Beside

\* getCommitAnalysis on the commit handed in, and the tier chosen for it
AnalyzeCommit ==
  /\ pc = "constructed"
  /\ ~classified.done
  /\ "input" \in DOMAIN classified
  /\ \E c \in {commitAnalysisOf(1, ProfileOfInput(classified.input))} :
       classified' =
         [done |-> TRUE, input |-> classified.input, analysis |-> c,
          tier |-> IF hasAI THEN selectModelForCommit(c) ELSE Null,
          recommendation |->
            getModelRecommendation(c.files, c.additions + c.deletions, c.breaking, c.complexWord)]
  /\ UNCHANGED <<generatorVars, besideVars, modelOverride, runVars>>

NextClassify == AnalyzeCommit

SpecClassify == InitClassify /\ [][NextClassify]_vars

\* the summarization of a single commit, in every environment
NextSummary ==
  \/ \E m \in Overrides : SetModelOverride(m)
  \/ RefuseWithoutRepository
  \/ \E gitOk \in BOOLEAN : ListCommits(gitOk)
  \/ \E a \in Analyses, r1 \in CallResults, r2 \in CallResults : ProcessCommit(a, r1, r2)
  \/ Finish

SpecSummary == InitSummary /\ [][NextSummary]_vars


(***************************************************************************)
(* The classification of the files of one commit: the file loop of         *)
(* getCommitAnalysis, analyzeFileChange on every name-status line.         *)
(***************************************************************************)
MaxFiles == 2

\* analyzeFileChange: diff = 'Binary file or diff unavailable' in the catch
UnavailableDiff ==
  [sentinel |-> TRUE, empty |-> FALSE, changedLines |-> 0, words |-> {}]

\* what git show answers for the diff of a file.  "text": a textual diff; "binary":
\* the header lines and "Binary files a/p and b/p differ", no line starting with + or -;
\* "failed": the command failed (the file is not reachable from the commit)
DiffOutcomes == {"text", "binary", "failed"}

\* the indicator words of the pattern table a text holds, named by their pattern
PathWords == {"testing"}
CodeWords == {"function_definition", "async_operations"}

\* GitManager.execGit on the diff command of file f: throws when the command failed
execGit(f) ==
  IF f.git = "failed" THEN [threw |-> TRUE]
  ELSE [threw |-> FALSE,
        output |-> [sentinel |-> FALSE, empty |-> FALSE,
                    changedLines |-> IF f.git = "text" THEN f.changedLines ELSE 0,
                    \* the header of the diff holds the path of the file
                    words |-> (IF f.pathWord THEN PathWords ELSE {})
                              \cup (IF f.git = "text" /\ f.codeWord THEN CodeWords ELSE {})]]

\* GitManager.execGitSafe: try { return this.execGit(...) } catch { ...; return '' }
execGitSafe(f) ==
  IF execGit(f).threw
    THEN [threw |-> FALSE,
          output |-> [sentinel |-> FALSE, empty |-> TRUE, changedLines |-> 0, words |-> {}]]
    ELSE execGit(f)

\* assessChangeComplexity(diff)
assessChangeComplexity(diff) ==
  IF diff.empty \/ diff.sentinel THEN 1
  ELSE IF diff.changedLines < 10 THEN 1
  ELSE IF diff.changedLines < 50 THEN 2
  ELSE IF diff.changedLines < 100 THEN 3
  ELSE IF diff.changedLines < 200 THEN 4
  ELSE 5

\* analyzeSemanticChanges(diff, filePath).patterns: the patterns whose indicators
\* the text of the diff holds
analyzeSemanticChanges(diff) ==
  IF diff.empty \/ diff.sentinel THEN {} ELSE diff.words

\* the null analyzeFileChange returns from its catch
NoFileChange == [missing |-> TRUE]

\* analyzeFileChange(commitHash, status, filePath) on the name-status line f;
\* f.throws: something raised inside the outer try (caught: null is returned)
analyzeFileChange(f) ==
  IF f.throws THEN NoFileChange
  ELSE LET diff == IF execGitSafe(f).threw THEN UnavailableDiff ELSE execGitSafe(f).output
       IN [status |-> f.status,
           filePath |-> f.path,
           diff |-> diff,
           category |-> categorizeFile(f.path),
           complexity |-> assessChangeComplexity(diff),
           semanticChanges |-> analyzeSemanticChanges(diff)]

AssetPath == [ext |-> "png", testInfix |-> FALSE, migration |-> FALSE]

\* the name-status lines of a commit and what git holds for each of them
ChangedFiles ==
  [status : {"A", "M"}, path : {SourcePath, AssetPath}, pathWord : BOOLEAN,
   git : DiffOutcomes, changedLines : {3, 60}, codeWord : BOOLEAN, throws : BOOLEAN]

\* a file as git lists it: a textual diff is the diff of a source file and has a size
\* and words, a binary diff is the diff of an image; the exception strikes one kind
\* of file of the explored commits
FileInputs ==
  { f \in ChangedFiles :
      /\ (f.path = AssetPath) <=> (f.git = "binary")
      /\ f.git # "text" => (f.changedLines = 3 /\ ~f.codeWord)
      /\ f.throws => (f.git = "text" /\ f.status = "M" /\ ~f.pathWord /\ ~f.codeWord
                      /\ f.changedLines = 3) }

RECURSIVE SeqsUpTo(_, _)
SeqsUpTo(S, n) ==
  IF n = 0 THEN {<<>>}
  ELSE SeqsUpTo(S, n - 1) \cup { Append(q, x) : q \in (SeqsUpTo(S, n - 1)), x \in S }

FileLists == { q \in SeqsUpTo(FileInputs, MaxFiles) : Len(q) > 0 }

InitFiles ==
  \E fl \in FileLists :
    /\ Constructed(CHOOSE e \in ClassifyEnvironments : ~e.azure /\ e.openai, 0, 0)
    /\ classified = [done |-> FALSE, lines |-> fl, files |-> <<>>]
    /\ dryRun = FALSE
    /\ Beside

\* one callback of filesOutput.split('\n').filter(Boolean).map(async line => ...):
\* the callbacks hold no await before analyzeFileChange returns, they run in order
AnalyzeFileChange ==
  /\ pc = "constructed"
  /\ ~classified.done
  /\ "lines" \in DOMAIN classified
  /\ Len(classified.files) < Len(classified.lines)
  /\ \E r \in {analyzeFileChange(classified.lines[Len(classified.files) + 1])} :
       /\ classified' = [classified EXCEPT !.files = Append(@, r)]
       /\ metrics' = [metrics EXCEPT !.errors = IF r = NoFileChange THEN @ + 1 ELSE @]
  /\ UNCHANGED <<generatorVars, besideVars, modelOverride, pc, outcome, commitHashes, idx,
                 analyzedCommits, batchTasks, failures, lastCall, sleeps, report, changelogFile>>

\* const validFiles = files.filter(Boolean)
validFiles(files) == SelectSeq(files, LAMBDA r : r # NoFileChange)

\* Promise.all resolved: the commit's files are the analysed ones
CollectFiles ==
  /\ pc = "constructed"
  /\ ~classified.done
  /\ "lines" \in DOMAIN classified
  /\ Len(classified.files) = Len(classified.lines)
  /\ classified' = [classified EXCEPT !.done = TRUE, !.files = validFiles(@)]
  /\ UNCHANGED <<generatorVars, besideVars, modelOverride, runVars>>

NextFiles == AnalyzeFileChange \/ CollectFiles

SpecFiles == InitFiles /\ [][NextFiles]_vars


(***************************************************************************)
(* GitManager.getCommits and parseCommitOutput.  A text is the sequence of *)
(* its characters.                                                         *)
(***************************************************************************)
MaxRecords == 2

NUL == "NUL"
LF == "LF"
Bar == "|"
Whitespace == {" ", LF}

\* String.prototype.split(separator) for a separator of one character
RECURSIVE splitFrom(_, _, _, _, _)
splitFrom(text, separator, k, piece, pieces) ==
  IF k > Len(text) THEN Append(pieces, piece)
  ELSE IF text[k] = separator
         THEN splitFrom(text, separator, k + 1, <<>>, Append(pieces, piece))
         ELSE splitFrom(text, separator, k + 1, Append(piece, text[k]), pieces)

split(text, separator) == splitFrom(text, separator, 1, <<>>, <<>>)

\* String.prototype.trim()
RECURSIVE trim(_)
trim(text) ==
  IF text = <<>> THEN text
  ELSE IF Head(text) \in Whitespace THEN trim(Tail(text))
  ELSE IF text[Len(text)] \in Whitespace THEN trim(SubSeq(text, 1, Len(text) - 1))
  ELSE text

\* Array.prototype.join(separator)
RECURSIVE join(_, _)
join(pieces, separator) ==
  IF pieces = <<>> THEN <<>>
  ELSE IF Len(pieces) = 1 THEN pieces[1]
  ELSE pieces[1] \o <<separator>> \o join(Tail(pieces), separator)

\* getCommits: the format strings 'full' (%H|%h|%s|%B|%an|%ae|%ad|%cd) and
\* 'simple' (%h|%s|%an|%ad), filled in by git for the commit r
formatRecord(r, format) ==
  IF format = "full"
    THEN join(<<r.hash, r.shortHash, r.subject, r.body, r.author, r.email,
                r.authorDate, r.commitDate>>, Bar)
    ELSE join(<<r.shortHash, r.subject, r.author, r.authorDate>>, Bar)

\* what git log prints for the commits rs: -z separates the records of the full
\* format with a null byte, the records of the simple format are lines
gitLogOutput(rs, format) ==
  join([k \in 1..Len(rs) |-> formatRecord(rs[k], format)], IF format = "full" THEN NUL ELSE LF)

\* faulty variant: a record with more separators than the format has is dropped
malformedUnlessExact(parts, fields) == Len(parts) # fields

\* parseCommitOutput: if (parts.length < 8) { console.warn(...); return null; }
malformed(parts, fields) == Len(parts) < fields

\* parseCommitOutput, format 'full': one record
parseFullLine(line) ==
  LET parts == split(line, Bar)
  IN IF malformed(parts, 8) THEN <<>>
     ELSE << [hash |-> trim(parts[1]),
              shortHash |-> trim(parts[2]),
              subject |-> trim(parts[3]),
              body |-> trim(parts[4]),
              author |-> trim(parts[5]),
              email |-> trim(parts[6]),
              authorDate |-> trim(parts[7]),
              commitDate |-> trim(parts[8])] >>

\* parseCommitOutput, format 'simple': one line
parseSimpleLine(line) ==
  LET parts == split(line, Bar)
  IN IF malformed(parts, 4) THEN <<>>
     ELSE << [shortHash |-> trim(parts[1]),
              message |-> trim(parts[2]),
              author |-> trim(parts[3]),
              date |-> trim(parts[4])] >>

\* lines.map(line => ...).filter(Boolean)
RECURSIVE parseLines(_, _)
parseLines(lines, format) ==
  IF lines = <<>> THEN <<>>
  ELSE (IF format = "full" THEN parseFullLine(Head(lines)) ELSE parseSimpleLine(Head(lines)))
       \o parseLines(Tail(lines), format)

\* parseCommitOutput(output, format)
parseCommitOutput(output, format) ==
  IF trim(output) = <<>> THEN <<>>
  ELSE LET lines == IF format = "full"
                      THEN SelectSeq(split(trim(output), NUL), LAMBDA l : l # <<>>)
                      ELSE SelectSeq(split(trim(output), LF), LAMBDA l : trim(l) # <<>>)
       IN parseLines(lines, format)

\* commits.map(commit => commit.hash).filter(Boolean): a commit parsed from the simple
\* format has no hash property
RECURSIVE hashesOf(_)
hashesOf(commits) ==
  IF commits = <<>> THEN <<>>
  ELSE (IF "hash" \in DOMAIN Head(commits) /\ Head(commits).hash # <<>>
          THEN <<Head(commits).hash>> ELSE <<>>)
       \o hashesOf(Tail(commits))

\* the subjects and bodies of the explored commits; a body ends with a line break
Subjects == { <<"s">>, <<"s", "s">>, <<"s", Bar>>, <<Bar, "s">> }
Bodies == { <<>>, <<"b", LF>>, <<"b", Bar, LF>>, <<"b", LF, "b">>, <<Bar, LF>> }

\* the characters the hashes of the explored commits are written with
HashCharacters == <<"a", "b", "c", "d", "e", "f">>

\* the k-th commit of a repository
CommitRecord(k, subject, body) ==
  [hash |-> <<HashCharacters[k], HashCharacters[k]>>, shortHash |-> <<HashCharacters[k]>>,
   subject |-> subject, body |-> body, author |-> <<"n">>, email |-> <<"e">>,
   authorDate |-> <<"a">>, commitDate |-> <<"c">>]

Texts(n) == SeqsUpTo(Subjects \X Bodies, n)

\* the commits git log lists, newest first
Repositories(format) ==
  { [k \in 1..Len(t) |-> CommitRecord(Len(t) - k + 1, t[k][1], t[k][2])] :
      t \in { u \in Texts(MaxRecords) :
               format = "simple" => \A k \in 1..Len(u) : u[k][2] = <<>> } }

InitParse ==
  \E format \in {"full", "simple"} :
    \E rs \in Repositories(format) :
      /\ Constructed(CHOOSE e \in ClassifyEnvironments : ~e.azure /\ ~e.openai, Len(rs), 0)
      /\ classified = NoClassification
      /\ dryRun = FALSE
      /\ changelogFile = "untouched"
      /\ aiProvider = NoProvider
      /\ cwd = StartDirectory
      /\ toolCalls = <<>>
      /\ gitLog = [done |-> FALSE, format |-> format, records |-> rs,
                   output |-> gitLogOutput(rs, format)]

\* getCommits: return this.parseCommitOutput(output, format)
ParseCommitOutput ==
  /\ ~gitLog.done
  /\ "output" \in DOMAIN gitLog
  /\ gitLog' = [done |-> TRUE, format |-> gitLog.format, records |-> gitLog.records,
                output |-> gitLog.output,
                commits |-> parseCommitOutput(gitLog.output, gitLog.format)]
  /\ UNCHANGED <<generatorVars, classified, dryRun, aiProvider, cwd, toolCalls,
                 modelOverride, runVars>>

\* the caller takes the hashes: commits.map(commit => commit.hash).filter(Boolean)
TakeHashes ==
  /\ gitLog.done
  /\ "hashes" \notin DOMAIN gitLog
  /\ gitLog' = [done |-> TRUE, format |-> gitLog.format, records |-> gitLog.records,
                output |-> gitLog.output, commits |-> gitLog.commits,
                hashes |-> hashesOf(gitLog.commits)]
  /\ UNCHANGED <<generatorVars, classified, dryRun, aiProvider, cwd, toolCalls,
                 modelOverride, runVars>>

NextParse == ParseCommitOutput \/ TakeHashes

SpecParse == InitParse /\ [][NextParse]_vars


(***************************************************************************)
(* The changelog-generating operations: generateChangelog, and the         *)
(* operations of the interactive menu with generateChangelogForCommits.    *)
(***************************************************************************)
\* the commits of a repository of n commits as git log lists them, newest first
RepositoryLog(n) == [k \in 1..n |-> CommitRecord(n - k + 1, <<"s">>, <<"b", LF>>)]

\* GitManager.getCommits({ count, format }) on a repository of n commits
getCommits(n, count, format) ==
  parseCommitOutput(gitLogOutput(SubSeq(RepositoryLog(n), 1, Min(count, n)), format), format)

\* the value of the expression commit.hash
hashProperty(commit) ==
  IF "hash" \in DOMAIN commit THEN [undefined |-> FALSE, value |-> commit.hash]
  ELSE [undefined |-> TRUE]

\* hashes handed on as they are
Defined(hashes) == [k \in 1..Len(hashes) |-> [undefined |-> FALSE, value |-> hashes[k]]]

\* the values of the ticked choices, in the order of the list
RECURSIVE selectedValues(_, _, _)
selectedValues(choices, ticked, k) ==
  IF k > Len(choices) THEN <<>>
  ELSE (IF k \in ticked THEN <<choices[k]>> ELSE <<>>) \o selectedValues(choices, ticked, k + 1)

\* generateChangelogForCommits: commitHash.substring(0, 7) in the loop, before the try
substringThrows(hashes) == \E k \in 1..Len(hashes) : hashes[k].undefined

\* generateChangelogForCommits(commitHashes): every commit is
\* analysed and summarized without a provider, then
\* fs.writeFileSync(CHANGELOG_FILE, changelog), whatever this.dryRun is.
\* caught: the caller catches the exception and counts it
generateChangelogForCommits(hashes, caught) ==
  IF substringThrows(hashes)
    THEN /\ metrics' = [metrics EXCEPT !.errors = IF caught THEN @ + 1 ELSE @]
         /\ outcome' = IF caught THEN "error_logged" ELSE "threw"
         /\ UNCHANGED changelogFile
    ELSE /\ metrics' = [metrics EXCEPT !.commitsProcessed = @ + Len(hashes)]
         /\ changelogFile' = "written"
         /\ outcome' = "changelog_saved"

\* the answers to 'How many recent commits?'
RecentCounts == {1, 10}

\* generateChangelogForRecentCommits(count)
GenerateChangelogForRecentCommits(count) ==
  /\ pc = "constructed"
  /\ \E hashes \in {hashesOf(getCommits(repoCommits, count, "simple"))} :
       /\ commitHashes' = hashes
       /\ IF Len(hashes) = 0
            THEN outcome' = "no_commits_found" /\ UNCHANGED <<metrics, changelogFile>>
            ELSE generateChangelogForCommits(Defined(hashes), TRUE)
  /\ pc' = "done"
  /\ UNCHANGED <<envVars, modelOverride, idx, analyzedCommits, batchTasks, failures,
                 lastCall, sleeps, report>>

\* selectSpecificCommits(); ticked: the choices the user ticks, at least one
\* (validate: input.length > 0)
SelectSpecificCommits(ticked) ==
  /\ pc = "constructed"
  /\ \E commits \in {getCommits(repoCommits, 20, "simple")} :
       LET commitChoices == [k \in 1..Len(commits) |-> hashProperty(commits[k])]
       IN IF Len(commitChoices) = 0
            THEN /\ ticked = {}
                 /\ outcome' = "no_commits_found"
                 /\ UNCHANGED <<metrics, changelogFile, commitHashes>>
            ELSE /\ ticked # {}
                 /\ ticked \subseteq 1..Len(commitChoices)
                 /\ commitHashes' = selectedValues(commitChoices, ticked, 1)
                 /\ generateChangelogForCommits(selectedValues(commitChoices, ticked, 1), TRUE)
  /\ pc' = "done"
  /\ UNCHANGED <<envVars, modelOverride, idx, analyzedCommits, batchTasks, failures,
                 lastCall, sleeps, report>>

\* generateChangelogForCommits called by a program that uses the generator, with
\* the hashes of the newest commits
CallGenerateChangelogForCommits(count) ==
  /\ pc = "constructed"
  /\ \E hashes \in {hashesOf(getCommits(repoCommits, count, "full"))} :
       /\ commitHashes' = hashes
       /\ generateChangelogForCommits(Defined(hashes), FALSE)
  /\ pc' = "done"
  /\ UNCHANGED <<envVars, modelOverride, idx, analyzedCommits, batchTasks, failures,
                 lastCall, sleeps, report>>

\* the generator of the operations: in a repository, without a provider, with and
\* without --dry-run
InitOperations ==
  \E n \in 0..MaxSmallRun, off \in 0..(Len(CommitProfiles) - 1), dry \in BOOLEAN :
    /\ Constructed(CHOOSE e \in ClassifyEnvironments : ~e.azure /\ ~e.openai, n, off)
    /\ classified = NoClassification
    /\ dryRun = dry
    /\ Beside

NextOperations ==
  \/ \E gitOk \in BOOLEAN : ListCommits(gitOk)
  \/ \E a \in Analyses, r1 \in CallResults, r2 \in CallResults : ProcessCommit(a, r1, r2)
  \/ Finish
  \/ \E count \in RecentCounts : GenerateChangelogForRecentCommits(count)
  \/ \E ticked \in SUBSET (1..MaxSmallRun) : SelectSpecificCommits(ticked)
  \/ \E count \in RecentCounts : CallGenerateChangelogForCommits(count)

SpecOperations == InitOperations /\ [][NextOperations]_vars


(***************************************************************************)
(* AIProvider.generate of src/ai-provider.js: the deployment name of the   *)
(* Azure configuration is shared by the calls in flight.                   *)
(***************************************************************************)
MaxCalls == 2

\* constructor of src/ai-provider.js: this.modelConfig
GenerateModelConfig ==
  [default |-> "gpt-4o", simple |-> "gpt-4o-mini", complex |-> "o3-mini", reasoning |-> "o1"]

\* the commitInfo arguments of the explored calls; NoCommitInfo: generate(prompt)
NoCommitInfo == [given |-> FALSE]
CommitInfos ==
  { NoCommitInfo,
    [given |-> TRUE, files |-> 2, additions |-> 30, deletions |-> 10, marker |-> FALSE],
    [given |-> TRUE, files |-> 8, additions |-> 200, deletions |-> 100, marker |-> FALSE],
    [given |-> TRUE, files |-> 2, additions |-> 30, deletions |-> 10, marker |-> TRUE],
    [given |-> TRUE, files |-> 60, additions |-> 2000, deletions |-> 1000, marker |-> FALSE] }

\* selectModelForCommit(commitInfo) of src/ai-provider.js; marker: the message holds
\* BREAKING or "!:"
selectModelForGenerate(commitInfo) ==
  LET filesChanged == commitInfo.files
      linesChanged == commitInfo.additions + commitInfo.deletions
  IN IF filesChanged > 50 \/ linesChanged > 2000 \/ commitInfo.marker
       THEN GenerateModelConfig.complex
     ELSE IF filesChanged < 5 /\ linesChanged < 100 THEN GenerateModelConfig.simple
     ELSE GenerateModelConfig.default

\* AZURE_OPENAI_DEPLOYMENT_NAME || this.modelConfig.default
ConfiguredDeployments == {GenerateModelConfig.default, "my-deployment"}

InitGenerate ==
  \E active \in {"azure", "openai"}, name \in ConfiguredDeployments :
    /\ Constructed(CHOOSE e \in ClassifyEnvironments : ~e.azure /\ ~e.openai, 0, 0)
    /\ classified = NoClassification
    /\ dryRun = FALSE
    /\ changelogFile = "untouched"
    /\ gitLog = NoParse
    /\ cwd = StartDirectory
    /\ toolCalls = <<>>
    /\ aiProvider = [activeProvider |-> active, configured |-> name,
                     deploymentName |-> name, calls |-> <<>>]

\* generate(prompt, commitInfo) up to await
\* this.callProvider(...): the model is selected, the deployment name is saved and
\* replaced, the request is built with the deployment name
GenerateStart(commitInfo) ==
  /\ "activeProvider" \in DOMAIN aiProvider
  /\ Len(aiProvider.calls) < MaxCalls
  /\ LET selectedModel == IF commitInfo.given THEN selectModelForGenerate(commitInfo)
                          ELSE GenerateModelConfig.default
         deployment == IF aiProvider.activeProvider = "azure" THEN selectedModel
                       ELSE aiProvider.deploymentName
     IN aiProvider' =
          [aiProvider EXCEPT
             !.deploymentName = deployment,
             !.calls = Append(@, [state |-> "awaiting",
                                  originalDeployment |-> aiProvider.deploymentName,
                                  selectedModel |-> selectedModel,
                                  requested |-> IF aiProvider.activeProvider = "azure"
                                                  THEN deployment ELSE selectedModel])]
  /\ UNCHANGED <<generatorVars, classified, dryRun, gitLog, cwd, toolCalls,
                 modelOverride, runVars>>

\* the provider call of the k-th generate settles: the deployment name is restored
\* in the try (ok) or in the catch, and the result returned or the error rethrown
GenerateSettles(k, ok) ==
  /\ "activeProvider" \in DOMAIN aiProvider
  /\ k \in 1..Len(aiProvider.calls)
  /\ aiProvider.calls[k].state = "awaiting"
  /\ aiProvider' =
       [aiProvider EXCEPT
          !.deploymentName = IF aiProvider.activeProvider = "azure"
                               THEN aiProvider.calls[k].originalDeployment ELSE @,
          !.calls[k].state = IF ok THEN "returned" ELSE "threw"]
  /\ UNCHANGED <<generatorVars, classified, dryRun, gitLog, cwd, toolCalls,
                 modelOverride, runVars>>

NextGenerate ==
  \/ \E commitInfo \in CommitInfos : GenerateStart(commitInfo)
  \/ \E k \in 1..MaxCalls, ok \in BOOLEAN : GenerateSettles(k, ok)

SpecGenerate == InitGenerate /\ [][NextGenerate]_vars

(***************************************************************************)
(* The MCP server: every tool call changes the working directory of the    *)
(* process to its repositoryPath and restores it in a finally block.       *)
(***************************************************************************)
MaxToolCalls == 2

\* the repositoryPath arguments: the default (process.cwd()), two repositories, and
\* a path that does not exist
RepositoryPaths == {"repoA", "repoB"}
MissingPath == "missing"

\* how far the call runs before it suspends: it awaits the generator or the
\* provider, returns without awaiting, or throws before it awaits
ToolCallCourses == {"awaits", "returns", "throws"}

\* a tool call (generateChangelog, analyzeCurrentChanges, ...) up to its first await
\* behind process.chdir(repositoryPath), or to its end when it has none
ToolCallStart(repositoryPath, course) ==
  /\ Len(toolCalls) < MaxToolCalls
  /\ repositoryPath = MissingPath => course = "throws"
  /\ LET originalCwd == cwd
         entered == IF repositoryPath # cwd /\ repositoryPath # MissingPath
                      THEN repositoryPath ELSE cwd
     IN IF course = "awaits"
          THEN /\ cwd' = entered
               /\ toolCalls' = Append(toolCalls, [state |-> "awaiting",
                                                  originalCwd |-> originalCwd,
                                                  repositoryPath |-> repositoryPath])
          ELSE \* finally { process.chdir(originalCwd) }
               /\ cwd' = originalCwd
               /\ toolCalls' = Append(toolCalls, [state |-> IF course = "returns"
                                                              THEN "returned" ELSE "threw",
                                                  originalCwd |-> originalCwd,
                                                  repositoryPath |-> repositoryPath])
  /\ UNCHANGED <<generatorVars, classified, dryRun, gitLog, aiProvider,
                 modelOverride, runVars>>

\* the awaited work of the k-th tool call settles; the call returns or throws, and
\* finally { process.chdir(originalCwd) }
ToolCallFinishes(k, ok) ==
  /\ k \in 1..Len(toolCalls)
  /\ toolCalls[k].state = "awaiting"
  /\ cwd' = toolCalls[k].originalCwd
  /\ toolCalls' = [toolCalls EXCEPT ![k].state = IF ok THEN "returned" ELSE "threw"]
  /\ UNCHANGED <<generatorVars, classified, dryRun, gitLog, aiProvider,
                 modelOverride, runVars>>

InitServer ==
  /\ Constructed(CHOOSE e \in ClassifyEnvironments : ~e.azure /\ ~e.openai, 0, 0)
  /\ classified = NoClassification
  /\ dryRun = FALSE
  /\ Beside

NextServer ==
  \/ \E repositoryPath \in {StartDirectory, MissingPath} \cup RepositoryPaths,
        course \in ToolCallCourses : ToolCallStart(repositoryPath, course)
  \/ \E k \in 1..MaxToolCalls, ok \in BOOLEAN : ToolCallFinishes(k, ok)

SpecServer == InitServer /\ [][NextServer]_vars


(***************************************************************************)
(* Properties.                                                             *)
(***************************************************************************)
\* a structurally complete AISummary: every required field present, none null/undefined
CompleteSummary(a) ==
  /\ RequiredFields \subseteq DOMAIN a
  /\ \A f \in {"summary", "technicalSummary", "category", "impact", "scope",
               "businessImpact", "technicalImpact", "riskLevel"} :
        a[f] \notin {Null, Undefined}
  /\ a.userFacing \in BOOLEAN
  /\ a.breaking \in BOOLEAN
  /\ a.confidence \in 0..10
  /\ \A f \in {"highlights", "tags", "relatedAreas"} : DOMAIN a[f] = 1..Len(a[f])

\* the positions of the listing that form its b-th batch
BatchPositions(b) ==
  { k \in 1..Len(commitHashes) : k > (b - 1) * batchSize /\ k <= b * batchSize }

\* every tier the heuristic chooses for a commit of the repository answers the probe
EveryTierAvailable ==
  \A k \in 1..Len(commitHashes) :
     validateModelAvailability(
       selectModelForCommit(commitAnalysisOf(commitHashes[k], profileOf(commitHashes[k]))))

\* C1: when the summarization service fails for every commit of a run (no commit of
\* the result has a service-derived summary), every commit of the final result carries
\* a structurally complete AISummary, on the batched path as on the one-by-one path.
C1_FallbackComplete ==
  (report.produced /\ \A k \in 1..Len(report.commits) : report.commits[k].source # "service")
    => \A k \in 1..Len(report.commits) : CompleteSummary(report.commits[k].aiSummary)

\* C2: in a batch of batchSize commits of which at most one triggers a summarization
\* error, all the others end with a service-derived summary: with AI configured, every
\* tier available and every analysis successful, at most one commit of a full batch of
\* the final result is without a service-derived summary.
C2_BatchIsolation ==
  (/\ report.produced
   /\ hasAI
   /\ EveryTierAvailable
   /\ Len(commitHashes) > BatchThreshold
   /\ Len(report.commits) = Len(commitHashes))
    => \A b \in 1..(Len(commitHashes) \div batchSize) :
         Cardinality({ k \in BatchPositions(b) : report.commits[k].source # "service" }) <= 1

\* position of a hash in the listing
PositionOf(h) == CHOOSE k \in 1..Len(commitHashes) : commitHashes[k] = h

InListingOrder(commits) ==
  \A j, k \in 1..Len(commits) :
     j < k => PositionOf(commits[j].hash) < PositionOf(commits[k].hash)

\* C3: the commits of the result (while it is built, and in the final report) are in
\* the order of the listing, whatever the order in which the tasks of a batch settle.
C3_OrderPreserved ==
  /\ InListingOrder(analyzedCommits)
  /\ report.produced => InListingOrder(report.commits)

\* C3 witness: in the second batch the last task has settled before the first one, the
\* first batch being collected.
C3_Witness ==
  /\ pc = "batch_wait"
  /\ idx = batchSize
  /\ Len(analyzedCommits) = batchSize
  /\ batchTasks[1] = "pending"
  /\ batchTasks[batchSize] = "value"


ServiceFailures == {"throw", "empty", "parse"}

\* C4: a failure of the external summarization of a commit (the service call threw,
\* the content was empty, the response did not parse) adds one to metrics.errors, gives
\* the commit the rule-based summary, and raises nothing to the caller.
C4_FailureRecovered ==
  [][ (lastCall' # lastCall /\ lastCall'.failure \in ServiceFailures)
        => /\ metrics'.errors = metrics.errors + 1
           /\ outcome' # "threw"
           /\ Len(analyzedCommits') = Len(analyzedCommits) + 1
           /\ LET done == analyzedCommits'[Len(analyzedCommits')]
              IN /\ done.hash = lastCall'.commit
                 /\ done.source = "rule"
                 /\ done.aiSummary =
                      generateRuleBasedSummary(commitAnalysisOf(done.hash, profileOf(done.hash))) ]_vars

\* C4 witness: the active provider and the retried provider both threw, and the run
\* ended with its report, the commit carrying the rule-based summary.
C4_Witness ==
  /\ lastCall.failure = "throw"
  /\ Len(lastCall.requests) = 2
  /\ report.produced
  /\ Len(report.commits) = 1
  /\ report.commits[1].source = "rule"
  /\ metrics.errors = 1

C6_RepositoryAbsenceFatal ==
  /\ (pc = "done" /\ ~gitExists) => outcome = "threw"
  /\ outcome = "threw" => ~gitExists

\* C7: with a model override set, the summarization of a commit runs no heuristic, no
\* availability probe and no fallback, and issues its request with the override model.
C7_OverrideHonored ==
  (hasAI /\ modelOverride # Null /\ lastCall.commit # 0)
    => /\ ~lastCall.heuristic
       /\ lastCall.probes = <<>>
       /\ ~lastCall.checked
       /\ Len(lastCall.requests) >= 1
       /\ \A r \in 1..Len(lastCall.requests) : lastCall.requests[r].model = modelOverride

\* the tier the heuristic prefers for the commit the last summarization was about
PreferredOfLastCall ==
  selectModelForCommit(commitAnalysisOf(lastCall.commit, profileOf(lastCall.commit)))

\* the fallback order of the claim: default, simple, then the legacy tiers
ClaimedFallbackOrder ==
  <<modelConfig.default, modelConfig.simple, "gpt-4o", "gpt-4", "gpt-35-turbo">>

\* the probes of a selector that probes the preferred tier, then the fallbacks in the
\* claimed order up to the first available one
ClaimedProbes(preferred) ==
  IF validateModelAvailability(preferred) THEN <<preferred>>
  ELSE LET fbs == SelectSeq(ClaimedFallbackOrder, LAMBDA m : m # preferred)
           ok == { j \in 1..Len(fbs) : validateModelAvailability(fbs[j]) }
           last == IF ok = {} THEN Len(fbs) ELSE CHOOSE j \in ok : \A i \in ok : j <= i
       IN <<preferred>> \o SubSeq(fbs, 1, last)

SelectorRan == hasAI /\ modelOverride = Null /\ lastCall.commit # 0

\* C8 (as claimed): the selector probes the preferred tier, then the fallbacks in the
\* order default, simple, legacy tiers, and the tier it returns reported available.
C8_NeverReturnsUnavailable ==
  SelectorRan
    => /\ lastCall.probes = ClaimedProbes(PreferredOfLastCall)
       /\ ~lastCall.signalled => validateModelAvailability(lastCall.selected)

\* C8 (amended): under the Azure provider the selector probes the preferred tier, then
\* the fallbacks in that order, and returns the first tier that reported available;
\* under the OpenAI provider it probes the preferred tier once and returns it whatever
\* the probe reported.
C8_AzureWalksFallbacks ==
  SelectorRan
    => IF activeProvider = "azure"
         THEN /\ lastCall.probes = ClaimedProbes(PreferredOfLastCall)
              /\ ~lastCall.signalled =>
                   /\ validateModelAvailability(lastCall.selected)
                   /\ lastCall.selected = lastCall.probes[Len(lastCall.probes)]
         ELSE /\ lastCall.probes = <<PreferredOfLastCall>>
              /\ lastCall.selected = PreferredOfLastCall
              /\ ~lastCall.signalled

\* C8 witness: on Azure the preferred tier, the default and the simple tier reported
\* unavailable and the first legacy tier was returned.
C8_Witness ==
  /\ SelectorRan
  /\ activeProvider = "azure"
  /\ Len(lastCall.probes) = 4
  /\ lastCall.selected = "gpt-4o"
  /\ ~validateModelAvailability(PreferredOfLastCall)

\* no tier answers the availability probe
NoTierAvailable == hasAI /\ \A m \in Models : ~validateModelAvailability(m)

\* C9: when no tier at all is available the run is not aborted: it ends with its
\* report, in which every commit carries a rule-based summary.
C9_NoTierRuleBased ==
  (NoTierAvailable /\ pc = "done" /\ Len(commitHashes) > 0)
    => /\ report.produced
       /\ \A k \in 1..Len(report.commits) :
            /\ report.commits[k].source = "rule"
            /\ CompleteSummary(report.commits[k].aiSummary)

\* C10: every completion request names the tier selected for the commit.
C10_RequestUsesSelectedTier ==
  \A r \in 1..Len(lastCall.requests) : lastCall.requests[r].model = lastCall.selected


\* the tasks of the batch that have not settled
PendingTasks(tasks) == { k \in DOMAIN tasks : tasks[k] = "pending" }

\* the number of batches a listing of n commits is cut into
BatchCount(n) == (n + batchSize - 1) \div batchSize

\* C11: commits are processed in batches of 10 that run strictly one after another: the
\* items of a batch start only when no item of the batch before is pending, at most one
\* batch's worth of items is in flight, and with the service in use a delay has been
\* inserted between every two consecutive batches.
C11_BatchesSequentialWithDelay ==
  /\ [](pc = "batch_wait" =>
          /\ Len(batchTasks) = Min(batchSize, Len(commitHashes) - idx)
          /\ Cardinality(PendingTasks(batchTasks)) <= batchSize
          /\ idx % batchSize = 0)
  /\ []((hasAI /\ pc \in {"batch", "batch_wait"}) =>
          sleeps = IF idx < Len(commitHashes) THEN idx \div batchSize
                   ELSE BatchCount(Len(commitHashes)) - 1)
  /\ [][ (PendingTasks(batchTasks') \ PendingTasks(batchTasks) # {})
           => /\ PendingTasks(batchTasks) = {}
              /\ Len(batchTasks') <= batchSize ]_vars

\* C11 witness: the third batch is in flight after two delays, the service configured.
C11_Witness ==
  /\ pc = "batch_wait"
  /\ hasAI
  /\ idx = 2 * batchSize
  /\ sleeps = 2
  /\ PendingTasks(batchTasks) # {}


\* C12: at the end of a run metrics.apiCalls equals the number of completion calls the
\* run issued to the summarization service, whether they succeeded or failed.
C12_ApiCallsCountIssued ==
  pc = "done" => metrics.apiCalls = Len(lastCall.requests)


\* the tasks of the batch whose analysis succeeded
SucceededTasks(tasks) == { k \in DOMAIN tasks : tasks[k] = "value" }

\* C13: no counter update of a batch item is lost: while a batch is in flight
\* metrics.commitsProcessed stands at the successes of the earlier batches plus the
\* items of this batch that have succeeded so far, and between batches at the
\* successes of all completed batches, whatever the order the items settled in.
C13_NoLostCounterUpdates ==
  /\ pc = "batch_wait" =>
       metrics.commitsProcessed = Len(analyzedCommits) + Cardinality(SucceededTasks(batchTasks))
  /\ pc = "batch" => metrics.commitsProcessed = Len(analyzedCommits)

\* C13 witness: two batches completed, one of their twenty analyses failed.
C13_Witness ==
  /\ pc = "batch"
  /\ idx = 2 * batchSize
  /\ failures = 1
  /\ metrics.commitsProcessed = 2 * batchSize - 1
  /\ metrics.batchesProcessed = 2


ComplexityLevels == <<"minimal", "low", "medium", "high", "very high">>
RiskLevels == <<"low", "low-medium", "medium", "high", "critical">>

\* the position of a level in its order
RankIn(levels, level) == CHOOSE k \in 1..Len(levels) : levels[k] = level

\* the scores the two assessments can give: 5 + 5 + 2 and 5 + 3 + 2 + 2 + 3 at most
ComplexityScores == 0..12
RiskScores == 0..15

\* C14: the levels are monotonic in the scores: against the score and the level of the
\* classified commit, no lower complexity (risk) score is given a higher level and no
\* higher score a lower level.
C14_LevelsMonotonic ==
  classified.done =>
    LET complexity == classified.analysis.complexity
        risk == classified.analysis.riskAssessment
    IN /\ \A s \in ComplexityScores :
            /\ s <= complexity.score
                 => RankIn(ComplexityLevels, complexityLevelOf(s))
                      <= RankIn(ComplexityLevels, complexity.level)
            /\ s >= complexity.score
                 => RankIn(ComplexityLevels, complexityLevelOf(s))
                      >= RankIn(ComplexityLevels, complexity.level)
       /\ \A s \in RiskScores :
            /\ s <= risk.score
                 => RankIn(RiskLevels, riskLevelOf(s)) <= RankIn(RiskLevels, risk.level)
            /\ s >= risk.score
                 => RankIn(RiskLevels, riskLevelOf(s)) >= RankIn(RiskLevels, risk.level)

\* C14 witness: a commit of complexity level high and risk level medium has been
\* classified, so scores with lower and with higher levels exist on both sides.
C14_Witness ==
  /\ classified.done
  /\ classified.analysis.complexity.level = "high"
  /\ classified.analysis.complexity.score \in ComplexityScores
  /\ classified.analysis.riskAssessment.level = "medium"
  /\ classified.analysis.riskAssessment.score \in RiskScores


\* the risk score getCommitAnalysis gives the commit of input i
RiskScoreOf(i) == commitAnalysisOf(1, ProfileOfInput(i)).riskAssessment.score

\* C15: the commit with a breaking-change indicator in its diff has no lower risk score
\* than the same commit without the indicator.
C15_DiffIndicatorNeverLowersRisk ==
  classified.done =>
    /\ classified.analysis.riskAssessment.score = RiskScoreOf(classified.input)
    /\ RiskScoreOf([classified.input EXCEPT !.diffBreaking = TRUE])
         >= RiskScoreOf([classified.input EXCEPT !.diffBreaking = FALSE])

\* C15 witness: a commit whose subject has the breaking marker and whose diff holds a
\* breaking indicator has been classified.
C15_Witness ==
  /\ classified.done
  /\ classified.input.diffBreaking
  /\ classified.input.bang
  /\ classified.analysis.riskAssessment.score >= 5


\* the risk factors of the claim that are present in the classified commit, in the
\* order of the list: name and points
ClaimedRiskFactors ==
  LET i == classified.input
      c == classified.analysis
  IN SelectSeq(<< [name |-> "Breaking changes detected", points |-> 5, present |-> c.breaking],
                  [name |-> "Database schema changes", points |-> 3,
                   present |-> "database" \in c.categories],
                  [name |-> "Configuration changes", points |-> 2,
                   present |-> "config" \in c.categories],
                  [name |-> "Large scale changes", points |-> 2,
                   present |-> c.files > 50 \/ c.additions + c.deletions > 2000],
                  [name |-> "Security-related changes", points |-> 3,
                   present |-> i.securityWord \/ i.diffSecurity] >>,
               LAMBDA f : f.present)

RECURSIVE SumPoints(_)
SumPoints(fs) == IF fs = <<>> THEN 0 ELSE Head(fs).points + SumPoints(Tail(fs))

\* C16: the risk score is the sum of the points of exactly the factors present (breaking
\* +5, database +3, configuration +2, large scale +2, security keyword in the subject,
\* the body or the diff +3), and the factors listed are exactly those.
C16_RiskScoreSumsFactors ==
  classified.done =>
    /\ classified.analysis.riskAssessment.score = SumPoints(ClaimedRiskFactors)
    /\ classified.analysis.riskAssessment.factors
         = [k \in 1..Len(ClaimedRiskFactors) |-> ClaimedRiskFactors[k].name]


\* the commit "feat(auth): add login": 2 source files, 40 lines, "auth" in the subject
IsLoginExample(i) ==
  /\ i.files = 2
  /\ i.diffStats.insertions + i.diffStats.deletions = 40
  /\ i.paths = {SourcePath}
  /\ i.securityWord
  /\ ~i.bang
  /\ ~i.complexWord

\* C17 (as claimed): the commit "feat(auth): add login" with 2 files and 40 lines is
\* classified complexity low and risk low, and gets the cheapest tier.
C17_LoginExampleLowLow ==
  (classified.done /\ IsLoginExample(classified.input))
    => /\ classified.analysis.complexity.level = "low"
       /\ classified.analysis.riskAssessment.level = "low"
       /\ hasAI => classified.tier = modelConfig.nano

\* C17 (amended): that commit is classified complexity minimal (score 0) and risk
\* low-medium (score 3, the security keyword "auth" of the subject being the one factor),
\* and selectModelForCommit gives it the nano tier.
C17_LoginExampleMinimalLowMedium ==
  (classified.done /\ IsLoginExample(classified.input))
    => /\ classified.analysis.complexity.score = 0
       /\ classified.analysis.complexity.level = "minimal"
       /\ classified.analysis.riskAssessment.score = 3
       /\ classified.analysis.riskAssessment.level = "low-medium"
       /\ classified.analysis.riskAssessment.factors = <<"Security-related changes">>
       /\ hasAI => classified.tier = modelConfig.nano

\* C17 witness: the commit has been classified with a provider configured.
C17_Witness ==
  /\ classified.done
  /\ IsLoginExample(classified.input)
  /\ hasAI
  /\ classified.tier = "gpt-4.1-nano"


\* the commit "fix!: remove deprecated endpoint": 120 files, 3000 lines, one of the
\* files on a database migration path
IsEndpointExample(i) ==
  /\ i.files = 120
  /\ i.diffStats.insertions + i.diffStats.deletions = 3000
  /\ i.bang
  /\ \E f \in i.paths : f.migration

\* C18: the commit "fix!: remove deprecated endpoint" with 120 files and 3000 lines that
\* touches a database migration path is classified complexity very high and risk
\* critical, with a risk score of at least 10 (breaking 5, database 3, large scale 2).
C18_EndpointExampleCritical ==
  (classified.done /\ IsEndpointExample(classified.input))
    => /\ classified.analysis.complexity.level = "very high"
       /\ classified.analysis.riskAssessment.level = "critical"
       /\ classified.analysis.riskAssessment.score >= 10


\* the architectural / very-large-change heuristic: file count, line count, or a
\* breaking change with a large file count
MeetsArchitecturalHeuristic(c) ==
  c.files > 100 \/ c.additions + c.deletions > 5000 \/ (c.breaking /\ c.files > 20)

\* the deepest-reasoning tier if the active provider offers one, else the complex tier
DeepestTierOffered ==
  IF activeProvider = "azure" THEN modelConfig.advanced_reasoning ELSE modelConfig.complex

\* C19: every commit that meets the architectural / very-large-change heuristic is
\* assigned the deepest-reasoning tier when the active provider offers one, and the
\* complex tier otherwise, by selectModelForCommit and by getModelRecommendation.
C19_ArchitecturalGetsDeepestTier ==
  (classified.done /\ hasAI /\ MeetsArchitecturalHeuristic(classified.analysis))
    => /\ classified.tier = DeepestTierOffered
       /\ classified.recommendation = DeepestTierOffered


\* a minimal change: fewer than 3 changed files and fewer than 50 changed lines
IsMinimalChange(c) == c.files < 3 /\ c.additions + c.deletions < 50

\* C20: a minimal change, no override set, is always assigned the cheapest (nano) tier
\* by the model-selection routines selectModelForCommit and getModelRecommendation.
C20_MinimalGetsNano ==
  (classified.done /\ hasAI /\ modelOverride = Null /\ IsMinimalChange(classified.analysis))
    => /\ classified.tier = modelConfig.nano
       /\ classified.recommendation = modelConfig.nano


\* the files of the commit whose diff is binary or could not be had, with what
\* analyzeFileChange made of them
UnavailableFiles ==
  IF "lines" \in DOMAIN classified /\ ~classified.done
    THEN { k \in 1..Len(classified.files) : classified.lines[k].git \in {"binary", "failed"} }
    ELSE {}

\* C21: a file whose diff is binary or unavailable is classified into a well-formed
\* FileChange with empty semantic tags and complexity score 0, and does not keep the
\* other files of the commit from being classified.
C21_UnavailableDiffScoresZero ==
  \A k \in UnavailableFiles :
    /\ classified.files[k] # NoFileChange
    /\ classified.files[k].semanticChanges = {}
    /\ classified.files[k].complexity = 0

\* C21, the part of it that the code keeps: such a file is classified, and every file
\* listed with it is classified or dropped by its own exception only.
C21_SiblingsClassified ==
  ("lines" \in DOMAIN classified /\ classified.done) =>
     Len(classified.files) = Cardinality({ k \in 1..Len(classified.lines) : ~classified.lines[k].throws })

\* the property a parsed commit is known by: the hash, or the short hash where the
\* format has no hash
KeyOf(commit) == IF "hash" \in DOMAIN commit THEN commit.hash ELSE commit.shortHash

\* C22: for a raw log block of K records the parser returns exactly K commit records,
\* in the order of the records in the input.
C22_ParserKeepsCountAndOrder ==
  gitLog.done =>
    /\ Len(gitLog.commits) = Len(gitLog.records)
    /\ \A k \in 1..Len(gitLog.commits) :
         KeyOf(gitLog.commits[k]) = (IF gitLog.format = "full" THEN gitLog.records[k].hash
                                     ELSE gitLog.records[k].shortHash)

\* C22 witness: two records of the full format were parsed, the subject of one
\* of them holding the separator character.
C22_Witness ==
  /\ gitLog.done
  /\ gitLog.format = "full"
  /\ Len(gitLog.commits) = 2
  /\ \E k \in 1..2 : \E j \in 1..Len(gitLog.records[k].subject) :
       gitLog.records[k].subject[j] = Bar

\* C29: every field of a commit parsed from the full format equals the raw field
\* (surrounding whitespace aside), also when subject or body hold the character '|'.
C29_FieldsSurviveSeparator ==
  (gitLog.done /\ gitLog.format = "full") =>
    \A k \in 1..Len(gitLog.commits) :
      \A f \in {"hash", "subject", "body", "author", "email", "authorDate", "commitDate"} :
        gitLog.commits[k][f] = trim(gitLog.records[k][f])

\* the commits of the report whose summary is marked breaking
MarkedBreaking ==
  { k \in 1..Len(report.commits) :
      /\ "breaking" \in DOMAIN report.commits[k].aiSummary
      /\ report.commits[k].aiSummary.breaking }

\* C23: the insights of a release are marked breaking whenever the AISummary of at least
\* one summarized commit is marked breaking.
C23_InsightsBreakingFromSummaries ==
  (report.produced /\ MarkedBreaking # {}) => report.insights.breaking

\* an operation of the interactive menu ended
MenuOperationEnded ==
  pc = "done" /\ outcome \in {"no_commits_found", "error_logged", "changelog_saved"}

\* C24: whenever the repository holds commits in the requested range, every
\* changelog-generating operation obtains their hashes and does not end with
\* "No commits found".
C24_OperationsObtainHashes ==
  /\ (MenuOperationEnded /\ repoCommits > 0) =>
        (outcome = "changelog_saved" /\ Len(commitHashes) > 0)
  /\ (pc \in {"loop", "batch"} /\ repoCommits > 0) => Len(commitHashes) = repoCommits

\* C25: in dry-run mode no changelog-generating operation writes the changelog file.
C25_DryRunWritesNothing ==
  dryRun => changelogFile = "untouched"

\* every generate call that was started has completed, by success or by error
GenerateCallsCompleted ==
  /\ "activeProvider" \in DOMAIN aiProvider
  /\ aiProvider.calls # <<>>
  /\ \A k \in 1..Len(aiProvider.calls) : aiProvider.calls[k].state # "awaiting"

\* C26: after all generate calls in flight have completed, the deployment name equals
\* the value it had before the first of them started, also when two calls overlapped.
C26_DeploymentNameRestored ==
  GenerateCallsCompleted => aiProvider.deploymentName = aiProvider.configured

\* every tool call that was started has finished
ToolCallsFinished ==
  /\ toolCalls # <<>>
  /\ \A k \in 1..Len(toolCalls) : toolCalls[k].state # "awaiting"

\* C27: every tool call restores the working directory when it finishes, and after
\* overlapping tool calls for different repositories have all finished the working
\* directory is the one before any of them started.
C27_WorkingDirectoryRestored ==
  ToolCallsFinished => cwd = StartDirectory

\* the provider the retry of generateCompletion goes to is configured
OtherConfigured(p) == IF p = "openai" THEN openaiConfigured ELSE azureConfigured

\* what one generateCompletion invocation with the provider calls in requests and the
\* end threw may have done: the active provider first; a second call only in auto
\* mode, on the other provider, which is configured; an error after one call only
\* where no retry is due
AtMostOneRetry(requests, threw) ==
  /\ Len(requests) \in {1, 2}
  /\ requests[1].provider = activeProvider
  /\ Len(requests) = 2 =>
       /\ provider = "auto"
       /\ requests[2].provider # activeProvider
       /\ OtherConfigured(requests[2].provider)
  /\ (threw /\ Len(requests) = 1) =>
       ~(provider = "auto" /\ OtherConfigured(IF activeProvider = "azure" THEN "openai" ELSE "azure"))

\* C28: one generateCompletion invocation makes at most two provider calls, the call to
\* the active provider and, only in auto mode with the other provider configured, one
\* retry on it; the error of a failed retry, and outside auto mode the first error,
\* goes to the caller.
C28_AtMostOneRetry ==
  /\ (lastCall.commit # 0 /\ lastCall.requests # <<>>)
       => AtMostOneRetry(lastCall.requests, lastCall.failure = "throw")
  /\ hasAI =>
       \A r1 \in CallResults, r2 \in CallResults :
         LET response == generateCompletion(modelConfig.default, r1, r2)
         IN /\ AtMostOneRetry(response.requests, response.threw)
            /\ r1 # "throw" => ~response.threw /\ Len(response.requests) = 1
            /\ (r1 = "throw" /\ Len(response.requests) = 2) => (response.threw <=> r2 = "throw")
            /\ (r1 = "throw" /\ provider # "auto") =>
                 response.threw /\ Len(response.requests) = 1

\* the active provider failed in auto mode, the retry on the other provider failed
\* too, and the error reached generateAISummary
C28_Witness ==
  /\ provider = "auto"
  /\ lastCall.commit # 0
  /\ Len(lastCall.requests) = 2
  /\ lastCall.requests[1].provider = "azure"
  /\ lastCall.requests[2].provider = "openai"
  /\ lastCall.failure = "throw"

\* Math.round(n / d * 100) for d > 0: the nearest integer, a half rounded up
roundPercent(n, d) == (200 * n + d) \div (2 * d)

\* getMetrics(): the two rates computed from the counters
getMetrics ==
  [errorRate |-> IF metrics.commitsProcessed > 0
                   THEN roundPercent(metrics.errors, metrics.commitsProcessed) ELSE 0,
   successRate |-> IF metrics.commitsProcessed > 0
                     THEN roundPercent(metrics.commitsProcessed - metrics.errors,
                                       metrics.commitsProcessed)
                     ELSE 0]

\* C30: for every reachable pair of the counters commitsProcessed and errors, getMetrics
\* reports successRate and errorRate within 0..100.
C30_RatesArePercentages ==
  /\ getMetrics.errorRate \in 0..100
  /\ getMetrics.successRate \in 0..100

====
